---------------------------- MODULE Spec2Model ----------------------------
(***************************************************************************)
(* Forest carbon dynamics (dynamics.py): the 3-PG growth step, the three   *)
(* disturbance transitions, and the landscape run land() that simulates    *)
(* `runs` stands under the unharvested and the harvest scenario and        *)
(* returns the carbon difference and the cumulative harvested carbon.      *)
(*                                                                         *)
(* Numbers.  The program computes in floating point; the model computes    *)
(* in fixed point with unit 1/Scale: a pool of 0.1 Mg/ha is 1000, the      *)
(* fraction 0.25 is 2500.  Products are rounded down to the unit.  Random  *)
(* draws and risks are in units of 1/RScale.  age, age_max and n_age are   *)
(* plain integers.                                                         *)
(***************************************************************************)
EXTENDS Integers, Sequences, FiniteSets, Bags, TLC

VARIABLES
    params,            \* global parameter dictionary (values only)
    states,            \* global dictionary of initial state values
    conf,              \* land(): infest_start, infest_end
    pc,                \* position in land()
    i,                 \* scenario index: 0 unharvested, 1 harvest
    run,               \* stand index within the scenario
    j,                 \* year index within the stand
    age,               \* stand age counter
    infested,          \* the stand's infested flag
    local_states,      \* the stand's state variable dictionary (time series)
    harvest,           \* last value returned by harvested_infestation (0: unbound)
    totals,            \* total_w_f .. total_w_o of the scenario
    fires,             \* per-year fire counts of the scenario
    infestations,      \* per-year infestation counts of the scenario
    harvests,          \* per-year harvested carbon of the scenario
    landscape_totals,  \* one landscape_total per finished scenario
    ret,               \* the value land() returned
    log,               \* history: per year of the stand, the functions called
    draws,             \* history: the random() values drawn in the last year
    low_draws,         \* history: number of draws so far below HiDraw
    removed,           \* history: per year of the stand, the carbon harvested
    stands,            \* history: the finished stands of the scenario (a bag)
    unharvested        \* history: the stands of the scenario before, when
                       \* random() reads a fixed sequence

vars == <<params, states, conf, pc, i, run, j, age, infested, local_states,
          harvest, totals, fires, infestations, harvests, landscape_totals,
          ret, log, draws, low_draws, removed, stands, unharvested>>

-----------------------------------------------------------------------------
(* Fixed-point arithmetic *)

Scale == 10^4
RScale == 10^6

FMul(a, b) == (a * b) \div Scale

Last(s) == s[Len(s)]
Last2(s) == s[Len(s) - 1]

RECURSIVE SeqSum(_)
SeqSum(s) == IF s = <<>> THEN 0 ELSE s[1] + SeqSum(Tail(s))

\* np.exp(-1), in units of 1/Scale
InvE == 3679
\* -1 * np.log(0.5), in units of 1/Scale
Ln2 == 6931

\* np.exp(-x) for x >= 0 in units of 1/Scale: the power series on [0, 1],
\* one factor exp(-1) for every whole unit above.
RECURSIVE ExpNeg(_)
ExpNeg(x) ==
    IF x > Scale THEN FMul(ExpNeg(x - Scale), InvE)
    ELSE LET t1 == x
             t2 == (t1 * x) \div (2 * Scale)
             t3 == (t2 * x) \div (3 * Scale)
             t4 == (t3 * x) \div (4 * Scale)
             t5 == (t4 * x) \div (5 * Scale)
             t6 == (t5 * x) \div (6 * Scale)
             t7 == (t6 * x) \div (7 * Scale)
             t8 == (t7 * x) \div (8 * Scale)
         IN  Scale - t1 + t2 - t3 + t4 - t5 + t6 - t7 + t8

\* np.exp(x) for any x in units of 1/Scale
NpExp(x) == IF x <= 0 THEN ExpNeg(-x) ELSE (Scale * Scale) \div ExpNeg(x)

\* x ** n for a fixed-point x and a whole exponent n
RECURSIVE FPow(_, _)
FPow(x, n) == IF n = 0 THEN Scale ELSE FMul(FPow(x, n - 1), x)

-----------------------------------------------------------------------------
(* Module-level values *)

DefaultParams ==
    [age_max |-> 150, n_age |-> 4, phi_s |-> 55000, f_DT |-> 5000,
     sigma_f |-> 32000, beers_k |-> 4000, microbial_efficiency |-> 2500]

DefaultStates ==
    [age |-> <<0>>, w_f |-> <<1000>>, w_s |-> <<1000>>, w_r |-> <<1000>>,
     w_l |-> <<1000>>, w_c |-> <<1000>>, w_o |-> <<400000>>,
     LAI |-> <<0>>, interception |-> <<0>>]

\* the residual 0.1 appended by every disturbance
Residual == Scale \div 10

-----------------------------------------------------------------------------
(* Growth *)

beers_law_scalar(beers_k, LAI) == NpExp(-1 * FMul(beers_k, LAI))

age_modifier(a, age_max, n_age) ==
    LET relative_age == (a * Scale) \div age_max
    IN  (Scale * Scale) \div (Scale + FPow((relative_age * 100) \div 95, n_age))

\* 1 - np.exp(-1 * k) with k = -1 * np.log(0.5) / time_constant
DecayFraction(time_constant) == Scale - NpExp(-1 * (Ln2 \div time_constant))

\* Every quantity three_PG computes from the age, the parameters and the most
\* current state values, before it appends.
three_PG_terms(a, p, sd) ==
    LET w_f == Last(sd.w_f)
        w_s == Last(sd.w_s)
        w_r == Last(sd.w_r)
        w_l == Last(sd.w_l)
        w_c == Last(sd.w_c)
        w_o == Last(sd.w_o)
        sigma_f_conv == p.sigma_f \div 10
        LAI == FMul(w_f, sigma_f_conv)
        intercept_fraction == Scale - beers_law_scalar(p.beers_k, LAI)
        phi_s_conv == (p.phi_s * 36) \div 10
        phi_p == phi_s_conv \div 2
        phi_pa == FMul(phi_p, intercept_fraction)
        alpha_c == (18 * Scale) \div 10
        f_age == age_modifier(a, p.age_max, p.n_age)
        avg_daily_C_increment == FMul(FMul(FMul(phi_pa, alpha_c), p.f_DT), f_age)
        net_daily_C == (avg_daily_C_increment * 45) \div 100
        annual_c_increment == (net_daily_C * 365) \div 100
        litterfall == (w_f * 20) \div 100
        litter_turnover == FMul(w_l, DecayFraction(2))
        branchfall == (w_s * 10) \div 100
        coarse_turnover == FMul(w_c, DecayFraction(20))
        som_turnover == FMul(w_o, DecayFraction(10))
        root_turnover == (25 * w_r) \div 100
        share == (33 * annual_c_increment) \div 100
    IN  [LAI |-> LAI,
         intercept_fraction |-> intercept_fraction,
         phi_pa |-> phi_pa,
         annual_c_increment |-> annual_c_increment,
         litterfall |-> litterfall,
         litter_turnover |-> litter_turnover,
         branchfall |-> branchfall,
         coarse_turnover |-> coarse_turnover,
         som_turnover |-> som_turnover,
         root_turnover |-> root_turnover,
         w_f |-> w_f + share - litterfall,
         w_s |-> w_s + share - branchfall,
         w_r |-> w_r + share - root_turnover,
         w_l |-> w_l + litterfall + ((9 * branchfall) \div 10) - litter_turnover,
         w_c |-> w_c + (branchfall \div 10) - coarse_turnover,
         w_o |-> w_o + FMul(root_turnover + litter_turnover + coarse_turnover,
                           p.microbial_efficiency) - som_turnover]

\* three_PG, except that the roots keep their value
three_PG_stale_roots(a, p, sd) ==
    LET t == three_PG_terms(a, p, sd)
    IN  [age |-> Append(sd.age, a),
         w_f |-> Append(sd.w_f, t.w_f),
         w_s |-> Append(sd.w_s, t.w_s),
         w_r |-> Append(sd.w_r, Last(sd.w_r)),
         w_l |-> Append(sd.w_l, t.w_l),
         w_c |-> Append(sd.w_c, t.w_c),
         w_o |-> Append(sd.w_o, t.w_o),
         LAI |-> Append(sd.LAI, t.LAI),
         interception |-> Append(sd.interception, t.intercept_fraction)]

\* three_PG, except that the whole branchfall goes to the coarse fuel
three_PG_branches_to_coarse(a, p, sd) ==
    LET t == three_PG_terms(a, p, sd)
        small == (9 * t.branchfall) \div 10
    IN  [age |-> Append(sd.age, a),
         w_f |-> Append(sd.w_f, t.w_f),
         w_s |-> Append(sd.w_s, t.w_s),
         w_r |-> Append(sd.w_r, t.w_r),
         w_l |-> Append(sd.w_l, t.w_l - small),
         w_c |-> Append(sd.w_c, t.w_c + small),
         w_o |-> Append(sd.w_o, t.w_o),
         LAI |-> Append(sd.LAI, t.LAI),
         interception |-> Append(sd.interception, t.intercept_fraction)]

three_PG(a, p, sd) ==
    LET t == three_PG_terms(a, p, sd)
    IN  [age |-> Append(sd.age, a),
         w_f |-> Append(sd.w_f, t.w_f),
         w_s |-> Append(sd.w_s, t.w_s),
         w_r |-> Append(sd.w_r, t.w_r),
         w_l |-> Append(sd.w_l, t.w_l),
         w_c |-> Append(sd.w_c, t.w_c),
         w_o |-> Append(sd.w_o, t.w_o),
         LAI |-> Append(sd.LAI, t.LAI),
         interception |-> Append(sd.interception, t.intercept_fraction)]

-----------------------------------------------------------------------------
(* Disturbances.  Each appends to the dictionary in the order of the code,  *)
(* so that [-1] and [-2] read what they read there: after w_f, w_s and w_r  *)
(* got their residual, their [-2] is the value before the reset.            *)

reset_live(sd) ==
    LET s1 == [sd EXCEPT !.age = Append(@, 0)]
        s2 == [s1 EXCEPT !.w_f = Append(@, Residual)]
        s3 == [s2 EXCEPT !.w_s = Append(@, Residual)]
    IN  [s3 EXCEPT !.w_r = Append(@, Residual)]

\* zero_display, except that 'interception' gets no entry
zero_display_no_interception(sd) == [sd EXCEPT !.LAI = Append(@, 0)]

\* zero_display, except that the last values are repeated
zero_display_repeats(sd) ==
    LET s1 == [sd EXCEPT !.LAI = Append(@, Last(sd.LAI))]
    IN  [s1 EXCEPT !.interception = Append(@, Last(sd.interception))]

zero_display(sd) ==
    LET s1 == [sd EXCEPT !.LAI = Append(@, 0)]
    IN  [s1 EXCEPT !.interception = Append(@, 0)]

\* unharvested_infestation, except that the litter gains w_f[-1], the residual
unharvested_infestation_reset_foliage(p, sd) ==
    LET microbial_efficiency == p.microbial_efficiency
        s4 == reset_live(sd)
        s5 == [s4 EXCEPT !.w_l = Append(@, Last(s4.w_l) + Last(s4.w_f))]
        s6 == [s5 EXCEPT !.w_c = Append(@, Last(s5.w_c) + Last2(s5.w_s))]
        s7 == [s6 EXCEPT !.w_o = Append(@, Last(s6.w_o)
                                   + FMul(Last2(s6.w_r), microbial_efficiency))]
    IN  zero_display(s7)

unharvested_infestation(p, sd) ==
    LET microbial_efficiency == p.microbial_efficiency
        s4 == reset_live(sd)
        s5 == [s4 EXCEPT !.w_l = Append(@, Last(s4.w_l) + Last2(s4.w_f))]
        s6 == [s5 EXCEPT !.w_c = Append(@, Last(s5.w_c) + Last2(s5.w_s))]
        s7 == [s6 EXCEPT !.w_o = Append(@, Last(s6.w_o)
                                   + FMul(Last2(s6.w_r), microbial_efficiency))]
    IN  zero_display(s7)

\* harvested_infestation, except that the stems also go to the coarse fuel
harvested_infestation_keeps_stems(p, sd) ==
    LET s9 == unharvested_infestation(p, sd)
    IN  [sd |-> s9, returned |-> Last2(s9.w_s)]

\* harvested_infestation, except that the stems are taken off the coarse fuel
harvested_infestation_from_fuel(p, sd) ==
    LET microbial_efficiency == p.microbial_efficiency
        s4 == reset_live(sd)
        s5 == [s4 EXCEPT !.w_l = Append(@, Last(s4.w_l) + Last2(s4.w_f))]
        s6 == [s5 EXCEPT !.w_c = Append(@, Last(s5.w_c) - Last2(s5.w_s))]
        s7 == [s6 EXCEPT !.w_o = Append(@, Last(s6.w_o)
                                   + FMul(Last2(s6.w_r), microbial_efficiency))]
        s9 == zero_display(s7)
    IN  [sd |-> s9, returned |-> Last2(s9.w_s)]

\* harvested_infestation, except that the stems returned are read after the
\* reset ([-1], not [-2])
harvested_infestation_returns_reset(p, sd) ==
    LET microbial_efficiency == p.microbial_efficiency
        s4 == reset_live(sd)
        s5 == [s4 EXCEPT !.w_l = Append(@, Last(s4.w_l) + Last2(s4.w_f))]
        s6 == [s5 EXCEPT !.w_c = Append(@, Last(s5.w_c))]
        s7 == [s6 EXCEPT !.w_o = Append(@, Last(s6.w_o)
                                   + FMul(Last2(s6.w_r), microbial_efficiency))]
        s9 == zero_display(s7)
    IN  [sd |-> s9, returned |-> Last(s9.w_s)]

\* The dictionary after the call, and the value returned.
harvested_infestation(p, sd) ==
    LET microbial_efficiency == p.microbial_efficiency
        s4 == reset_live(sd)
        s5 == [s4 EXCEPT !.w_l = Append(@, Last(s4.w_l) + Last2(s4.w_f))]
        s6 == [s5 EXCEPT !.w_c = Append(@, Last(s5.w_c))]
        s7 == [s6 EXCEPT !.w_o = Append(@, Last(s6.w_o)
                                   + FMul(Last2(s6.w_r), microbial_efficiency))]
        s9 == zero_display(s7)
    IN  [sd |-> s9, returned |-> Last2(s9.w_s)]

\* fire, except that the soil gains w_r[-1], the residual
fire_reset_roots(p, sd) ==
    LET microbial_efficiency == p.microbial_efficiency
        s4 == reset_live(sd)
        s5 == [s4 EXCEPT !.w_l = Append(@, Residual)]
        s6 == [s5 EXCEPT !.w_c = Append(@, Residual)]
        s7 == [s6 EXCEPT !.w_o = Append(@, Last(s6.w_o)
                                   + FMul(Last(s6.w_r), microbial_efficiency))]
    IN  zero_display(s7)

fire(p, sd) ==
    LET microbial_efficiency == p.microbial_efficiency
        s4 == reset_live(sd)
        s5 == [s4 EXCEPT !.w_l = Append(@, Residual)]
        s6 == [s5 EXCEPT !.w_c = Append(@, Residual)]
        s7 == [s6 EXCEPT !.w_o = Append(@, Last(s6.w_o)
                                   + FMul(Last2(s6.w_r), microbial_efficiency))]
    IN  zero_display(s7)

-----------------------------------------------------------------------------
(* land(): time parameters.  runs, simulation_length and the length of the  *)
(* infestation window are scaled down; the window is placed either on the   *)
(* first simulated year or one year after it.  conf holds the window, the   *)
(* number of years to simulate and the source of random(): <<>> for free    *)
(* draws, or a fixed sequence that every stand reads from its start.        *)

runs == 2
simulation_length == 3
WindowLen == 1
start_year == 1915
fire_frequency == 200

InfestStartChoices == {start_year, start_year + 1}

Confs == {[infest_start |-> s, infest_end |-> s + WindowLen,
           simulation_length |-> simulation_length, injected |-> <<>>] :
            s \in InfestStartChoices}

\* random(): three values of [0, 1).  MidDraw lies between the fire risk of
\* a stand with residual fuel and that of a stand carrying dead stems.
MidDraw == 50
HiDraw == RScale - 1
RandSet == {0, MidDraw, HiDraw}

\* at most this many draws of one land() call fall below HiDraw
MaxLowDraws == 2

Low(r) == IF r < HiDraw THEN 1 ELSE 0

\* the fixed sequences: two draws for each year, few of them low
InjectedSeqs ==
    {s \in [1..(2 * simulation_length) -> RandSet] :
        Cardinality({k \in DOMAIN s : s[k] < HiDraw}) <= MaxLowDraws}

InjectedConfs == {[c EXCEPT !.injected = s] : c \in Confs, s \in InjectedSeqs}

\* the number of random() calls made in the years of a log: one in an
\* infestation year, two in any other year
Consumed(lg) ==
    SeqSum([k \in 1..Len(lg) |->
              IF lg[k] \in {<<"unharvested_infestation">>,
                            <<"harvested_infestation">>} THEN 1 ELSE 2])

Zeros(n) == [k \in 1..n |-> 0]

VecAdd(a, b) == [k \in 1..Len(a) |-> a[k] + b[k]]
VecSub(a, b) == [k \in 1..Len(a) |-> a[k] - b[k]]

Pools == {"w_f", "w_s", "w_r", "w_l", "w_c", "w_o"}

NoStates ==
    [age |-> <<>>, w_f |-> <<>>, w_s |-> <<>>, w_r |-> <<>>, w_l |-> <<>>,
     w_c |-> <<>>, w_o |-> <<>>, LAI |-> <<>>, interception |-> <<>>]

\* a new initialized state variable dictionary
new_local_states(st) ==
    [age |-> <<st.age[1]>>, w_f |-> <<st.w_f[1]>>, w_s |-> <<st.w_s[1]>>,
     w_r |-> <<st.w_r[1]>>, w_l |-> <<st.w_l[1]>>, w_c |-> <<st.w_c[1]>>,
     w_o |-> <<st.w_o[1]>>, LAI |-> <<st.LAI[1]>>,
     interception |-> <<st.interception[1]>>]

infest_risk(c) == ((8 * RScale) \div 10) \div (c.infest_end - c.infest_start)

\* fire_risk, except that the litter counts in full
fire_risk_unweighted(sd) ==
    ((RScale \div fire_frequency)
        * ((Last(sd.w_l) + Last(sd.w_c)) \div 20)) \div Scale

fire_risk(sd) ==
    ((RScale \div fire_frequency)
        * (((Last(sd.w_l) \div 10) + Last(sd.w_c)) \div 20)) \div Scale

\* infestation_due, except that the year is not looked at
infestation_due_any_year(inf, year, rand, c) ==
    /\ ~inf
    /\ rand <= infest_risk(c)

\* the condition of the infestation branch
infestation_due(inf, year, rand, c) ==
    /\ ~inf
    /\ c.infest_start <= year
    /\ year <= c.infest_end
    /\ rand <= infest_risk(c)

\* landscape_total = total_w_f + total_w_s + total_w_r + total_w_l + total_w_c + total_w_o
landscape_total(tot) ==
    VecAdd(VecAdd(VecAdd(VecAdd(VecAdd(tot.w_f, tot.w_s), tot.w_r), tot.w_l),
                  tot.w_c), tot.w_o)

\* difference, the other way round
difference_swapped(lts) == VecSub(lts[1], lts[2])

difference(lts) == VecSub(lts[2], lts[1])

\* np.cumsum, except that nothing is accumulated
cumsum_none(s) == s

\* np.cumsum
RECURSIVE cumsum(_)
cumsum(s) ==
    IF s = <<>> THEN <<>>
    ELSE LET front == cumsum(SubSeq(s, 1, Len(s) - 1))
         IN  Append(front, (IF front = <<>> THEN 0 ELSE Last(front)) + Last(s))

plot_years == [k \in 1..(conf.simulation_length + 1) |-> start_year + k - 1]

NoReturn == [plot_years |-> <<>>, difference |-> <<>>, cumsum |-> <<>>]

-----------------------------------------------------------------------------
(* The landscape run *)

\* the state when land() is entered, but for conf
Entered ==
    /\ params = DefaultParams
    /\ states = DefaultStates
    /\ pc = "scenario"
    /\ i = 0
    /\ run = 0
    /\ j = 0
    /\ age = 0
    /\ infested = FALSE
    /\ local_states = NoStates
    /\ harvest = 0
    /\ totals = [q \in Pools |-> <<>>]
    /\ fires = <<>>
    /\ infestations = <<>>
    /\ harvests = <<>>
    /\ landscape_totals = <<>>
    /\ ret = NoReturn
    /\ log = <<>>
    /\ draws = <<>>
    /\ low_draws = 0
    /\ removed = <<>>
    /\ stands = EmptyBag
    /\ unharvested = EmptyBag

Init == conf \in Confs /\ Entered

\* for i in (0, 1): initialize the lists of the scenario
BeginScenario ==
    /\ pc = "scenario"
    /\ i <= 1
    /\ totals' = [q \in Pools |-> Zeros(conf.simulation_length + 1)]
    /\ fires' = Zeros(conf.simulation_length + 1)
    /\ infestations' = Zeros(conf.simulation_length + 1)
    /\ harvests' = Zeros(conf.simulation_length + 1)
    /\ run' = 0
    /\ stands' = EmptyBag
    /\ unharvested' = IF conf.injected = <<>> THEN EmptyBag ELSE stands
    /\ pc' = "stand"
    /\ UNCHANGED <<params, states, conf, i, j, age, infested, local_states,
                   harvest, landscape_totals, ret, log, draws, low_draws,
                   removed>>

\* BeginStand, except that after the first stand the dictionary is kept
BeginStand_continues ==
    /\ pc = "stand"
    /\ run < runs
    /\ local_states' = IF run = 0 THEN new_local_states(states)
                                  ELSE local_states
    /\ age' = 0
    /\ infested' = FALSE
    /\ j' = 0
    /\ log' = <<>>
    /\ draws' = <<>>
    /\ removed' = <<>>
    /\ pc' = "year"
    /\ UNCHANGED <<params, states, conf, i, run, harvest, totals, fires,
                   infestations, harvests, landscape_totals, ret, low_draws,
                   stands, unharvested>>

\* BeginStand, except that the age counter is not reset
BeginStand_keeps_age ==
    /\ pc = "stand"
    /\ run < runs
    /\ local_states' = new_local_states(states)
    /\ infested' = FALSE
    /\ j' = 0
    /\ log' = <<>>
    /\ draws' = <<>>
    /\ removed' = <<>>
    /\ pc' = "year"
    /\ UNCHANGED <<params, states, conf, i, run, age, harvest, totals, fires,
                   infestations, harvests, landscape_totals, ret, low_draws,
                   stands, unharvested>>

\* for run in range(runs): a new dictionary, age 0, not infested
BeginStand ==
    /\ pc = "stand"
    /\ run < runs
    /\ local_states' = new_local_states(states)
    /\ age' = 0
    /\ infested' = FALSE
    /\ j' = 0
    /\ log' = <<>>
    /\ draws' = <<>>
    /\ removed' = <<>>
    /\ pc' = "year"
    /\ UNCHANGED <<params, states, conf, i, run, harvest, totals, fires,
                   infestations, harvests, landscape_totals, ret, low_draws,
                   stands, unharvested>>

\* YearFrame, except that the stand's dictionary is the global one
\* (local_states = states), so what a step appends shows in states
YearFrame_aliased ==
    /\ states' = local_states'
    /\ UNCHANGED <<params, conf, pc, i, run, infested, totals,
                   landscape_totals, ret, stands, unharvested>>

\* What one pass of the year loop leaves alone, whatever its branch.
YearFrame ==
    UNCHANGED <<params, states, conf, pc, i, run, infested, totals,
                landscape_totals, ret, stands, unharvested>>

\* random() returned the values d in this year: any values, or the next
\* ones of the fixed sequence
Drawn(d) ==
    LET low == SeqSum([k \in 1..Len(d) |-> Low(d[k])])
        at == Consumed(log)
    IN  /\ IF conf.injected = <<>>
              THEN low_draws + low <= MaxLowDraws
              ELSE d = [k \in 1..Len(d) |-> conf.injected[at + k]]
        /\ low_draws' = low_draws + low
        /\ draws' = d

\* InfestationYear, except that the infestation is counted only where the
\* harvest is recorded
InfestationYear_counts_harvested(r1) ==
    /\ infestation_due(infested, start_year + j, r1, conf)
    /\ Drawn(<<r1>>)
    /\ age' = 0
    /\ \/ /\ i = 0
          /\ local_states' = unharvested_infestation(params, local_states)
          /\ log' = Append(log, <<"unharvested_infestation">>)
          /\ removed' = Append(removed, 0)
          /\ UNCHANGED <<harvest, harvests, infestations>>
       \/ /\ i = 1
          /\ LET r == harvested_infestation(params, local_states)
             IN  /\ local_states' = r.sd
                 /\ harvest' = r.returned
                 /\ harvests' = [harvests EXCEPT ![j + 1] = @ - r.returned]
                 /\ removed' = Append(removed, r.returned)
          /\ infestations' = [infestations EXCEPT ![j + 1] = @ + 1]
          /\ log' = Append(log, <<"harvested_infestation">>)
    /\ j' = j + 1
    /\ UNCHANGED fires
    /\ YearFrame

\* The infestation branch: no growth or fire occur in infestation years.
InfestationYear(r1) ==
    /\ infestation_due(infested, start_year + j, r1, conf)
    /\ Drawn(<<r1>>)
    /\ age' = 0
    /\ \/ /\ i = 0
          /\ local_states' = unharvested_infestation(params, local_states)
          /\ log' = Append(log, <<"unharvested_infestation">>)
          /\ removed' = Append(removed, 0)
          /\ UNCHANGED <<harvest, harvests>>
       \/ /\ i = 1
          /\ LET r == harvested_infestation(params, local_states)
             IN  /\ local_states' = r.sd
                 /\ harvest' = r.returned
                 /\ harvests' = [harvests EXCEPT ![j + 1] = @ - r.returned]
                 /\ removed' = Append(removed, r.returned)
          /\ log' = Append(log, <<"harvested_infestation">>)
    /\ infestations' = [infestations EXCEPT ![j + 1] = @ + 1]
    /\ j' = j + 1
    /\ UNCHANGED fires
    /\ YearFrame

\* FireYear, except that the growth step is not in an else branch
FireYear_then_growth(r1, r2) ==
    /\ ~infestation_due(infested, start_year + j, r1, conf)
    /\ r2 <= fire_risk(local_states)
    /\ Drawn(<<r1, r2>>)
    /\ local_states' = three_PG(0, params, fire(params, local_states))
    /\ fires' = [fires EXCEPT ![j + 1] = @ + 1]
    /\ age' = 0 + 1
    /\ log' = Append(log, <<"fire", "three_PG">>)
    /\ j' = j + 1
    /\ removed' = Append(removed, 0)
    /\ UNCHANGED <<harvest, harvests, infestations>>
    /\ YearFrame

\* FireYear, except that the stems burnt are entered as harvested
FireYear_harvests(r1, r2) ==
    /\ ~infestation_due(infested, start_year + j, r1, conf)
    /\ r2 <= fire_risk(local_states)
    /\ Drawn(<<r1, r2>>)
    /\ local_states' = fire(params, local_states)
    /\ fires' = [fires EXCEPT ![j + 1] = @ + 1]
    /\ harvests' = [harvests EXCEPT ![j + 1] = @ - Last(local_states.w_s)]
    /\ age' = 0 + 1
    /\ log' = Append(log, <<"fire">>)
    /\ j' = j + 1
    /\ removed' = Append(removed, 0)
    /\ UNCHANGED <<harvest, infestations>>
    /\ YearFrame

\* The else branch with a stochastic fire: age = 0, fire(), then age += 1.
FireYear(r1, r2) ==
    /\ ~infestation_due(infested, start_year + j, r1, conf)
    /\ r2 <= fire_risk(local_states)
    /\ Drawn(<<r1, r2>>)
    /\ local_states' = fire(params, local_states)
    /\ fires' = [fires EXCEPT ![j + 1] = @ + 1]
    /\ age' = 0 + 1
    /\ log' = Append(log, <<"fire">>)
    /\ j' = j + 1
    /\ removed' = Append(removed, 0)
    /\ UNCHANGED <<harvest, harvests, infestations>>
    /\ YearFrame

\* The else branch without a fire: three_PG(age, ...), then age += 1.
GrowthYear(r1, r2) ==
    /\ ~infestation_due(infested, start_year + j, r1, conf)
    /\ ~(r2 <= fire_risk(local_states))
    /\ Drawn(<<r1, r2>>)
    /\ local_states' = three_PG(age, params, local_states)
    /\ age' = age + 1
    /\ log' = Append(log, <<"three_PG">>)
    /\ j' = j + 1
    /\ removed' = Append(removed, 0)
    /\ UNCHANGED <<harvest, harvests, infestations, fires>>
    /\ YearFrame

\* Year, except that the first pass is made before the length is looked at
Year_first_unchecked ==
    /\ pc = "year"
    /\ j = 0 \/ j < conf.simulation_length
    /\ \E r1 \in RandSet :
         \/ InfestationYear(r1)
         \/ \E r2 \in RandSet : FireYear(r1, r2) \/ GrowthYear(r1, r2)

\* one simulated year of the stand: for year in simulation_years
Year ==
    /\ pc = "year"
    /\ j < conf.simulation_length
    /\ \E r1 \in RandSet :
         \/ InfestationYear(r1)
         \/ \E r2 \in RandSet : FireYear(r1, r2) \/ GrowthYear(r1, r2)

\* EndStand, except that the totals are assigned, not added to
EndStand_assigns ==
    /\ pc = "year"
    /\ j = conf.simulation_length
    /\ totals' = [q \in Pools |-> local_states[q]]
    /\ run' = run + 1
    /\ UNCHANGED unharvested
    /\ stands' = stands (+) SetToBag({[local_states |-> local_states,
                                        log |-> log, removed |-> removed]})
    /\ pc' = "stand"
    /\ UNCHANGED <<params, states, conf, i, j, age, infested, local_states,
                   harvest, fires, infestations, harvests, landscape_totals,
                   ret, log, draws, low_draws, removed>>

\* after the year loop: total_w_x += np.array(local_states['w_x'])
EndStand ==
    /\ pc = "year"
    /\ j = conf.simulation_length
    /\ totals' = [q \in Pools |-> VecAdd(totals[q], local_states[q])]
    /\ run' = run + 1
    /\ UNCHANGED unharvested
    /\ stands' = stands (+) SetToBag({[local_states |-> local_states,
                                        log |-> log, removed |-> removed]})
    /\ pc' = "stand"
    /\ UNCHANGED <<params, states, conf, i, j, age, infested, local_states,
                   harvest, fires, infestations, harvests, landscape_totals,
                   ret, log, draws, low_draws, removed>>

\* after the stands: landscape_totals.append(landscape_total)
EndScenario ==
    /\ pc = "stand"
    /\ run = runs
    /\ landscape_totals' = Append(landscape_totals, landscape_total(totals))
    /\ i' = i + 1
    /\ pc' = IF i = 1 THEN "return" ELSE "scenario"
    /\ UNCHANGED <<params, states, conf, run, j, age, infested, local_states,
                   harvest, totals, fires, infestations, harvests, ret, log,
                   draws, low_draws, removed, stands, unharvested>>

\* return plot_years, difference, np.cumsum(harvests)
Return ==
    /\ pc = "return"
    /\ ret' = [plot_years |-> plot_years,
               difference |-> difference(landscape_totals),
               cumsum |-> cumsum(harvests)]
    /\ pc' = "done"
    /\ UNCHANGED <<params, states, conf, i, run, j, age, infested,
                   local_states, harvest, totals, fires, infestations,
                   harvests, landscape_totals, log, draws, low_draws,
                   removed, stands, unharvested>>

Next ==
    \/ BeginScenario
    \/ BeginStand
    \/ Year
    \/ EndStand
    \/ EndScenario
    \/ Return

Spec == Init /\ [][Next]_vars

\* land() with simulation_length 0 or 1
ShortLengths == {0, 1}

ShortConfs ==
    {[c EXCEPT !.simulation_length = n] : c \in Confs, n \in ShortLengths}

InitShort == conf \in ShortConfs /\ Entered

SpecShort == InitShort /\ [][Next]_vars

\* land() with random() reading a fixed sequence, restarted for every stand
InitInjected == conf \in InjectedConfs /\ Entered

SpecInjected == InitInjected /\ [][Next]_vars

-----------------------------------------------------------------------------
(* One call of three_PG or of a disturbance on a dictionary holding one     *)
(* entry, for a range of ages, pool values and microbial efficiencies.      *)

StepAges == {0, 1, 40}
StepEfficiencies == {2500, 5000}

StepStates ==
    [age : {<<0>>}, w_f : {<<0>>, <<1000>>, <<30000>>},
     w_s : {<<1000>>, <<52000>>}, w_r : {<<1000>>, <<17000>>},
     w_l : {<<1000>>, <<23000>>}, w_c : {<<1000>>, <<61000>>},
     w_o : {<<400000>>, <<0>>}, LAI : {<<0>>}, interception : {<<0>>}]

StepInit ==
    /\ params \in {[DefaultParams EXCEPT !.microbial_efficiency = e] :
                     e \in StepEfficiencies}
    /\ states = DefaultStates
    /\ conf \in Confs
    /\ pc = "step"
    /\ i = 0
    /\ run = 0
    /\ j = 0
    /\ age \in StepAges
    /\ infested = FALSE
    /\ local_states \in StepStates
    /\ harvest = 0
    /\ totals = [q \in Pools |-> <<>>]
    /\ fires = <<>>
    /\ infestations = <<>>
    /\ harvests = <<>>
    /\ landscape_totals = <<>>
    /\ ret = NoReturn
    /\ log = <<>>
    /\ draws = <<>>
    /\ low_draws = 0
    /\ removed = <<>>
    /\ stands = EmptyBag
    /\ unharvested = EmptyBag

StepFrame ==
    UNCHANGED <<params, states, conf, i, run, j, age, infested, totals,
                fires, infestations, harvests, landscape_totals, ret, draws,
                low_draws, removed, stands, unharvested>>

StepGrowth ==
    /\ pc = "step"
    /\ local_states' = three_PG(age, params, local_states)
    /\ log' = Append(log, <<"three_PG">>)
    /\ pc' = "stepped"
    /\ UNCHANGED harvest
    /\ StepFrame

StepFire ==
    /\ pc = "step"
    /\ local_states' = fire(params, local_states)
    /\ log' = Append(log, <<"fire">>)
    /\ pc' = "stepped"
    /\ UNCHANGED harvest
    /\ StepFrame

StepUnharvested ==
    /\ pc = "step"
    /\ local_states' = unharvested_infestation(params, local_states)
    /\ log' = Append(log, <<"unharvested_infestation">>)
    /\ pc' = "stepped"
    /\ UNCHANGED harvest
    /\ StepFrame

StepHarvested ==
    /\ pc = "step"
    /\ LET r == harvested_infestation(params, local_states)
       IN  /\ local_states' = r.sd
           /\ harvest' = r.returned
    /\ log' = Append(log, <<"harvested_infestation">>)
    /\ pc' = "stepped"
    /\ StepFrame

StepNext ==
    \/ StepGrowth
    \/ StepFire
    \/ StepUnharvested
    \/ StepHarvested

SpecStep == StepInit /\ [][StepNext]_vars

-----------------------------------------------------------------------------
(* The main control loop: the commands that set a parameter and the 'stand' *)
(* command.  The length of the stand simulation and the years of its fire   *)
(* and its infestation are scaled down.                                     *)

stand_length == 3
stand_fire_year == 1
stand_beetle_year == 2

\* values typed for a parameter: float(value) takes any number
TypedValues ==
    [age_max |-> {0, 150},
     sigma_f |-> {-32000, 0, 32000},
     microbial_efficiency |-> {2500, 5000}]

MainInit ==
    /\ params = DefaultParams
    /\ states = DefaultStates
    /\ conf \in {c \in Confs : c.infest_start = start_year}
    /\ pc = "main"
    /\ i = 0
    /\ run = 0
    /\ j = 0
    /\ age = 0
    /\ infested = FALSE
    /\ local_states = NoStates
    /\ harvest = 0
    /\ totals = [q \in Pools |-> <<>>]
    /\ fires = <<>>
    /\ infestations = <<>>
    /\ harvests = <<>>
    /\ landscape_totals = <<>>
    /\ ret = NoReturn
    /\ log = <<>>
    /\ draws = <<>>
    /\ low_draws = 0
    /\ removed = <<>>
    /\ stands = EmptyBag
    /\ unharvested = EmptyBag

\* what the main loop leaves alone outside land()
MainFrame ==
    UNCHANGED <<states, conf, i, run, infested, harvest, totals, fires,
                infestations, harvests, landscape_totals, ret, draws,
                low_draws, removed, stands, unharvested>>

\* command in params.keys(): params[command][0] = float(value)
SetParam ==
    /\ pc = "main"
    /\ \E command \in DOMAIN TypedValues :
         \E value \in TypedValues[command] :
             params' = [params EXCEPT ![command] = value]
    /\ UNCHANGED <<pc, j, age, local_states, log>>
    /\ MainFrame

\* command in states.keys(): params[command][0] = float(value).  The name
\* of a state variable is no key of params, so the lookup params[command]
\* raises KeyError after the value was read; nothing is assigned.
SetState ==
    /\ pc = "main"
    /\ \E command \in DOMAIN states :
         \E value \in {0, 2000} :
             /\ command \notin DOMAIN params
             /\ pc' = "KeyError"
             /\ UNCHANGED params
    /\ UNCHANGED <<j, age, local_states, log>>
    /\ MainFrame

\* 'stand': age = 0 and a new dictionary, before each of the two loops
StandBegin ==
    /\ pc = "main"
    /\ pc' = "stand1"
    /\ age' = 0
    /\ local_states' = new_local_states(states)
    /\ j' = 0
    /\ log' = <<>>
    /\ UNCHANGED params
    /\ MainFrame

\* three_PG(age, params, local_states); age += 1.  float(age)/age_max raises
\* ZeroDivisionError when age_max is 0, before anything is appended.
GrowOrRaise ==
    IF params.age_max = 0
        THEN /\ pc' = "raised"
             /\ UNCHANGED <<local_states, age, j, log>>
        ELSE /\ local_states' = three_PG(age, params, local_states)
             /\ age' = age + 1
             /\ j' = j + 1
             /\ log' = Append(log, <<"three_PG">>)
             /\ UNCHANGED pc

\* the first loop: growth in every year
StandYear ==
    /\ pc = "stand1"
    /\ j < stand_length
    /\ GrowOrRaise
    /\ UNCHANGED params
    /\ MainFrame

\* after the first loop (plots), the second set of simulations begins
StandAgain ==
    /\ pc = "stand1"
    /\ j = stand_length
    /\ pc' = "stand2"
    /\ age' = 0
    /\ local_states' = new_local_states(states)
    /\ j' = 0
    /\ log' = <<>>
    /\ UNCHANGED params
    /\ MainFrame

\* the second loop: a fire in one year, an infestation in another, growth
\* in the others; age += 1 after each
StandDisturbedYear ==
    /\ pc = "stand2"
    /\ j < stand_length
    /\ IF j = stand_fire_year
          THEN /\ local_states' = fire(params, local_states)
               /\ age' = 0 + 1
               /\ j' = j + 1
               /\ log' = Append(log, <<"fire">>)
               /\ UNCHANGED pc
          ELSE IF j = stand_beetle_year
          THEN /\ local_states' = unharvested_infestation(params, local_states)
               /\ age' = 0 + 1
               /\ j' = j + 1
               /\ log' = Append(log, <<"unharvested_infestation">>)
               /\ UNCHANGED pc
          ELSE GrowOrRaise
    /\ UNCHANGED params
    /\ MainFrame

\* after the second loop: plt.show(), back to the prompt
StandShown ==
    /\ pc = "stand2"
    /\ j = stand_length
    /\ pc' = "main"
    /\ UNCHANGED <<params, j, age, local_states, log>>
    /\ MainFrame

MainNext ==
    \/ SetParam
    \/ SetState
    \/ StandBegin
    \/ StandYear
    \/ StandAgain
    \/ StandDisturbedYear
    \/ StandShown

SpecMain == MainInit /\ [][MainNext]_vars

-----------------------------------------------------------------------------
(* age_modifier in the program's arithmetic.  The fixed point above is too  *)
(* coarse to order two values of the modifier, so here the value is the     *)
(* exact quotient 1 / (1 + x), x = (age / (0.95 * age_max)) ** n_age, kept  *)
(* as num / den, but for what 64-bit floating point does to 1 + x: with 53  *)
(* significant bits, 1 + x is exactly 1.0 once x is below 2 ** -53.         *)

\* the largest k with x * 2 ** k <= y, for 0 < x <= y
RECURSIVE Log2Floor(_, _)
Log2Floor(x, y) == IF 2 * x > y THEN 0 ELSE 1 + Log2Floor(2 * x, y)

\* (relative_age / 0.95) ** n_age is 0.0, or at most 2 ** -54
Unresolved(a, age_max, n_age) ==
    \/ a = 0
    \/ /\ 100 * a <= 95 * age_max
       /\ Log2Floor(100 * a, 95 * age_max) * n_age >= 54

\* x ** n for whole numbers
RECURSIVE IPow(_, _)
IPow(x, n) == IF n = 0 THEN 1 ELSE x * IPow(x, n - 1)

OneExactly == [num |-> 1, den |-> 1]

\* age_modifier_float, except that 1 + x is returned, not its reciprocal
age_modifier_float_unreciprocated(a, age_max, n_age) ==
    IF Unresolved(a, age_max, n_age) THEN OneExactly
    ELSE [num |-> IPow(19 * age_max, n_age) + IPow(20 * a, n_age),
          den |-> IPow(19 * age_max, n_age)]

age_modifier_float(a, age_max, n_age) ==
    IF Unresolved(a, age_max, n_age) THEN OneExactly
    ELSE [num |-> IPow(19 * age_max, n_age),
          den |-> IPow(19 * age_max, n_age) + IPow(20 * a, n_age)]

\* the inputs of the calls: parameter values with ages whose quotient is
\* exact in the model's integers, and parameter values with ages so small
\* against age_max that x is not resolved
AgeCases ==
    {[age_max |-> m, n_age |-> 1, ages |-> 0..12 \cup {150, 300}] :
        m \in {1, 95, 150}}
    \cup {[age_max |-> m, n_age |-> 2, ages |-> 0..8] : m \in {1, 5, 7}}
    \cup {[age_max |-> 150, n_age |-> 8, ages |-> {0, 1}],
          [age_max |-> 20000, n_age |-> 4, ages |-> {0, 1}]}

AgeInit ==
    /\ \E c \in AgeCases :
         /\ params = [DefaultParams EXCEPT !.age_max = c.age_max,
                                           !.n_age = c.n_age]
         /\ age \in c.ages
    /\ states = DefaultStates
    /\ conf \in {c \in Confs : c.infest_start = start_year}
    /\ pc = "call"
    /\ i = 0
    /\ run = 0
    /\ j = 0
    /\ infested = FALSE
    /\ local_states = NoStates
    /\ harvest = 0
    /\ totals = [q \in Pools |-> <<>>]
    /\ fires = <<>>
    /\ infestations = <<>>
    /\ harvests = <<>>
    /\ landscape_totals = <<>>
    /\ ret = NoReturn
    /\ log = <<>>
    /\ draws = <<>>
    /\ low_draws = 0
    /\ removed = <<>>
    /\ stands = EmptyBag
    /\ unharvested = EmptyBag

\* one call of age_modifier(age, age_max, n_age)
AgeModifierCall ==
    /\ pc = "call"
    /\ ret' = age_modifier_float(age, params.age_max, params.n_age)
    /\ pc' = "returned"
    /\ UNCHANGED <<params, states, conf, i, run, j, age, infested,
                   local_states, harvest, totals, fires, infestations,
                   harvests, landscape_totals, log, draws, low_draws,
                   removed, stands, unharvested>>

AgeNext == AgeModifierCall

SpecAge == AgeInit /\ [][AgeNext]_vars

-----------------------------------------------------------------------------
(* LCA.py: the adjustment of a flux time series to the length of the        *)
(* analysis, scaled down.  conf holds the series supplied, ret the series   *)
(* that is iterated.                                                        *)

TWP_length == 3

\* the longest series supplied: past twice the length of the analysis
MaxFluxLen == 2 * TWP_length + 1

\* a flux is an emission, an uptake or nothing
FluxSeries == UNION {[1..n -> {-1, 0, 1}] : n \in 0..MaxFluxLen}

\* flux_timeseries[TWP_length:], or appends of 0 up to TWP_length
adjust_length(flux_timeseries) ==
    IF Len(flux_timeseries) > TWP_length
        THEN SubSeq(flux_timeseries, TWP_length + 1, Len(flux_timeseries))
    ELSE IF Len(flux_timeseries) < TWP_length
        THEN flux_timeseries
               \o [x \in 1..(TWP_length - Len(flux_timeseries)) |-> 0]
    ELSE flux_timeseries

\* every variable of the landscape run at rest
Idle ==
    /\ params = DefaultParams
    /\ states = DefaultStates
    /\ i = 0
    /\ run = 0
    /\ j = 0
    /\ age = 0
    /\ infested = FALSE
    /\ local_states = NoStates
    /\ harvest = 0
    /\ totals = [q \in Pools |-> <<>>]
    /\ fires = <<>>
    /\ infestations = <<>>
    /\ harvests = <<>>
    /\ landscape_totals = <<>>
    /\ log = <<>>
    /\ draws = <<>>
    /\ low_draws = 0
    /\ removed = <<>>
    /\ stands = EmptyBag
    /\ unharvested = EmptyBag

IdleFrame ==
    UNCHANGED <<params, states, conf, i, run, j, age, infested,
                local_states, harvest, totals, fires, infestations,
                harvests, landscape_totals, log, draws, low_draws,
                removed, stands, unharvested>>

LCAInit ==
    /\ conf \in {[flux_timeseries |-> f] : f \in FluxSeries}
    /\ ret = [flux_timeseries |-> <<>>]
    /\ pc = "supplied"
    /\ Idle

\* the if / elif before the series is iterated
AdjustLength ==
    /\ pc = "supplied"
    /\ ret' = [flux_timeseries |-> adjust_length(conf.flux_timeseries)]
    /\ pc' = "adjusted"
    /\ IdleFrame

LCANext == AdjustLength

SpecLCA == LCAInit /\ [][LCANext]_vars

-----------------------------------------------------------------------------
(* FVS.py: deficit(years, systemC_control_list, systemC_RX_list).  conf     *)
(* holds the three lists, ret what the function returns.  previous_year is  *)
(* '' before the first year: here the empty tuple, and <<year>> after.      *)

MaxYears == 3

\* the lists of years: increasing, a year 0 included
YearLists ==
    {ys \in UNION {[1..n -> 0..MaxYears] : n \in 0..MaxYears} :
        \A a \in 1..Len(ys) : \A b \in 1..Len(ys) : a < b => ys[a] < ys[b]}

\* total ecosystem carbon of a year
CarbonValues == {40 * Scale, 60 * Scale}

DeficitInputs ==
    UNION {[years : {ys},
            systemC_control_list : [1..Len(ys) -> CarbonValues],
            systemC_RX_list : [1..Len(ys) -> CarbonValues]] : ys \in YearLists}

\* if previous_year: the empty string and the year 0 are both false
Truthy(previous_year) == previous_year # <<>> /\ previous_year[1] # 0

\* the body of the loop from index k on
RECURSIVE deficit_from(_, _, _, _, _)
deficit_from(k, c, previous_year, integrated_deficit, running_deficit) ==
    IF k > Len(c.years)
        THEN [integrated_deficit |-> integrated_deficit,
              running_deficit |-> running_deficit]
    ELSE LET current_year == c.years[k]
             current_deficit ==
                 c.systemC_control_list[k] - c.systemC_RX_list[k]
             previous_deficit ==
                 c.systemC_control_list[k - 1] - c.systemC_RX_list[k - 1]
             integral == ((previous_deficit + current_deficit) \div 2)
                           * (current_year - previous_year[1])
         IN  IF Truthy(previous_year)
                THEN deficit_from(k + 1, c, <<current_year>>,
                                  integrated_deficit + integral,
                                  Append(running_deficit, current_deficit))
                ELSE deficit_from(k + 1, c, <<current_year>>,
                                  integrated_deficit, running_deficit)

deficit(c) == deficit_from(1, c, <<>>, 0, <<0>>)

FVSInit ==
    /\ conf \in DeficitInputs
    /\ ret = [integrated_deficit |-> 0, running_deficit |-> <<>>]
    /\ pc = "call"
    /\ Idle

DeficitCall ==
    /\ pc = "call"
    /\ ret' = deficit(conf)
    /\ pc' = "returned"
    /\ IdleFrame

FVSNext == DeficitCall

SpecFVS == FVSInit /\ [][FVSNext]_vars

-----------------------------------------------------------------------------
(* Reading a dictionary of time series *)

Series == {"age", "w_f", "w_s", "w_r", "w_l", "w_c", "w_o", "LAI",
           "interception"}

\* the values of index k
Entry(sd, k) == [q \in Series |-> sd[q][k]]

\* the dictionary cut after index k
Upto(sd, k) == [q \in Series |-> SubSeq(sd[q], 1, k)]

PoolSum(e) == e.w_f + e.w_s + e.w_r + e.w_l + e.w_c + e.w_o

Abs(x) == IF x < 0 THEN -x ELSE x

Infestation(calls) ==
    calls \in {<<"unharvested_infestation">>, <<"harvested_infestation">>}

Disturbance(calls) == Infestation(calls) \/ calls = <<"fire">>

\* a single call was made on a one-entry dictionary
Stepped(name) == pc = "stepped" /\ log = <<<<name>>>>

-----------------------------------------------------------------------------
(* The transitions, one call at a time (SpecStep) *)

\* C6: harvested_infestation appends what unharvested_infestation appends to
\* the same dictionary, except that w_c repeats its value before the reset
\* instead of gaining the stems, and it returns the stems before the reset;
\* from the default state with efficiency 0.25 it appends age 0, residual
\* foliage, stems and roots, soil organic matter 40.025 and returns 0.1.
C6_HarvestedInfestation ==
    Stepped("harvested_infestation") =>
        LET pre == Entry(local_states, 1)
            post == Entry(local_states, 2)
            before == Upto(local_states, 1)
            other == Entry(unharvested_infestation(params, before), 2)
        IN  /\ \A q \in Series : Len(local_states[q]) = 2
            /\ post = [other EXCEPT !.w_c = pre.w_c]
            /\ other.w_c = pre.w_c + pre.w_s
            /\ harvest = pre.w_s
            /\ (before = DefaultStates /\ params.microbial_efficiency = 2500
                  => /\ post.age = 0
                     /\ post.w_f = 1000 /\ post.w_s = 1000 /\ post.w_r = 1000
                     /\ post.w_o = 400250
                     /\ harvest = 1000)

C6_Witness ==
    /\ Stepped("harvested_infestation")
    /\ Upto(local_states, 1) = DefaultStates
    /\ params.microbial_efficiency = 2500

\* C7: fire appends age 0, the residual 0.1 for foliage, stems, roots, litter
\* and coarse fuel, and soil organic matter = its value before the reset plus
\* the roots before the reset times the microbial efficiency.
C7_Fire ==
    Stepped("fire") =>
        LET pre == Entry(local_states, 1)
            post == Entry(local_states, 2)
        IN  /\ \A q \in Series : Len(local_states[q]) = 2
            /\ post.age = 0
            /\ \A q \in {"w_f", "w_s", "w_r", "w_l", "w_c"} : post[q] = Scale \div 10
            /\ post.w_o = pre.w_o + (pre.w_r * params.microbial_efficiency) \div Scale

C7_Witness ==
    /\ Stepped("fire")
    /\ local_states.w_r[1] > Residual
    /\ local_states.w_l[1] > Residual
    /\ local_states.w_s[1] > Residual

\* C8: unharvested_infestation appends age 0, the residual 0.1 for foliage,
\* stems and roots, litter + foliage before the reset, coarse fuel + stems
\* before the reset, and soil organic matter + roots before the reset times
\* the microbial efficiency.
C8_UnharvestedInfestation ==
    Stepped("unharvested_infestation") =>
        LET pre == Entry(local_states, 1)
            post == Entry(local_states, 2)
        IN  /\ \A q \in Series : Len(local_states[q]) = 2
            /\ post.age = 0
            /\ \A q \in {"w_f", "w_s", "w_r"} : post[q] = Scale \div 10
            /\ post.w_l = pre.w_l + pre.w_f
            /\ post.w_c = pre.w_c + pre.w_s
            /\ post.w_o = pre.w_o + (pre.w_r * params.microbial_efficiency) \div Scale

C8_Witness ==
    /\ Stepped("unharvested_infestation")
    /\ local_states.w_f[1] > Residual
    /\ local_states.w_s[1] > Residual
    /\ local_states.w_r[1] > Residual

\* What the fixed-point rounding of one growth step can add up to: the three
\* shares of the increment, the two parts of the branchfall, the stabilized
\* part of the turnover.
RoundTol == 3 + 2 + 1

\* the quantities of the growth step that led to entry 2
StepTerms == three_PG_terms(age, params, Upto(local_states, 1))

\* C9 as claimed: the pools after a growth step sum to the pools before it
\* plus the annual carbon increment (up to rounding).
C9_Original ==
    Stepped("three_PG") =>
        Abs(PoolSum(Entry(local_states, 2))
              - (PoolSum(Entry(local_states, 1)) + StepTerms.annual_c_increment))
          <= RoundTol

\* C9 as amended: the pools after a growth step sum to the pools before it
\* plus 0.99 of the annual carbon increment, minus the part (1 - microbial
\* efficiency) of the root, litter and coarse fuel turnover, minus the whole
\* soil organic matter turnover (up to rounding).
C9_GrowthBalance ==
    Stepped("three_PG") =>
        LET t == StepTerms
            turnover == t.root_turnover + t.litter_turnover + t.coarse_turnover
            respired == turnover - (turnover * params.microbial_efficiency) \div Scale
        IN  Abs(PoolSum(Entry(local_states, 2))
                  - (PoolSum(Entry(local_states, 1))
                       + (99 * t.annual_c_increment) \div 100
                       - respired - t.som_turnover))
              <= RoundTol

C9_Witness ==
    /\ Stepped("three_PG")
    /\ StepTerms.annual_c_increment > 0
    /\ StepTerms.som_turnover > 0
    /\ StepTerms.branchfall > 0

-----------------------------------------------------------------------------
(* The landscape run (Spec) *)

Years == 1..(simulation_length + 1)

\* the six pools of a scenario's totals at index k
TotalCarbon(tot, k) ==
    tot.w_f[k] + tot.w_s[k] + tot.w_r[k] + tot.w_l[k] + tot.w_c[k] + tot.w_o[k]

\* landscape_totals[0] was taken from the unharvested scenario's totals
UnharvestedTotalTaken ==
    pc = "scenario" /\ i = 1 =>
        \A k \in Years : landscape_totals[1][k] = TotalCarbon(totals, k)

\* C1 as claimed: the returned difference is, at every index, the no-harvest
\* landscape total minus the harvest landscape total.
C1_Original ==
    pc = "done" =>
        \A k \in Years :
            ret.difference[k] = landscape_totals[1][k] - TotalCarbon(totals, k)

\* C1 as amended: the returned difference is, at every index, the harvest
\* scenario's landscape total (its six pool totals added up) minus the
\* no-harvest scenario's landscape total.
C1_Difference ==
    /\ UnharvestedTotalTaken
    /\ pc = "done" =>
         /\ Len(ret.difference) = simulation_length + 1
         /\ \A k \in Years :
              ret.difference[k] = TotalCarbon(totals, k) - landscape_totals[1][k]

C1_Witness ==
    /\ pc = "done"
    /\ \E k \in Years : ret.difference[k] < 0
    /\ \E k \in Years : harvests[k] < 0

\* C2 as claimed: a stand is infested at most once.
C2_Original ==
    Cardinality({k \in 1..Len(log) : Infestation(log[k])}) <= 1

\* the fire risk of lines 273: (1/200) * ((litter * 0.1 + coarse fuel) / 20)
RiskOfFuel(w_l, w_c) == ((RScale \div 200) * (((w_l \div 10) + w_c) \div 20)) \div Scale

\* year k of the stand lies in the infestation window
InWindow(k) ==
    /\ conf.infest_start <= start_year + k - 1
    /\ start_year + k - 1 <= conf.infest_end

\* C3: every year of a stand appends one entry to every series, the entry of
\* exactly one of the three steps; the fire draw is made only when the
\* infestation did not happen, a fire happens only when that draw is within
\* the fire risk and growth only when it is not.
C3_OneStepPerYear ==
    pc = "year" =>
        /\ Len(log) = j
        /\ \A q \in Series : Len(local_states[q]) = j + 1
        /\ \A k \in 1..Len(log) :
             LET before == Upto(local_states, k)
                 after == Upto(local_states, k + 1)
             IN  \/ /\ log[k] = <<"three_PG">>
                    /\ after = three_PG(local_states.age[k + 1], params, before)
                 \/ /\ log[k] = <<"fire">>
                    /\ after = fire(params, before)
                 \/ /\ log[k] = <<"unharvested_infestation">>
                    /\ i = 0
                    /\ after = unharvested_infestation(params, before)
                 \/ /\ log[k] = <<"harvested_infestation">>
                    /\ i = 1
                    /\ after = harvested_infestation(params, before).sd
        /\ j >= 1 =>
             LET risk == RiskOfFuel(local_states.w_l[j], local_states.w_c[j])
             IN  /\ Infestation(log[j]) => Len(draws) = 1
                 /\ log[j] = <<"fire">> => Len(draws) = 2 /\ draws[2] <= risk
                 /\ log[j] = <<"three_PG">> => Len(draws) = 2 /\ draws[2] > risk

C3_Witness ==
    /\ pc = "year"
    /\ j = simulation_length
    /\ \E a, b, c \in 1..j :
         /\ Infestation(log[a])
         /\ log[b] = <<"fire">>
         /\ log[c] = <<"three_PG">>

\* C4 as claimed: the year after a disturbance year is a growth year.
C4_Original ==
    \A k \in 1..(Len(log) - 1) :
        Disturbance(log[k]) => log[k + 1] = <<"three_PG">>

\* C4 as amended: the year after a disturbance year is decided like any other
\* year: it is a growth year exactly when its first draw does not trigger an
\* infestation (the year is outside the window or the draw exceeds 0.8 / the
\* window length) and its second draw exceeds the fire risk of the fuel the
\* disturbance left; otherwise it is a disturbance year again.
C4_AfterDisturbance ==
    pc = "year" /\ j >= 2 /\ Disturbance(log[j - 1]) =>
        LET risk == RiskOfFuel(local_states.w_l[j], local_states.w_c[j])
            triggered ==
                /\ InWindow(j)
                /\ draws[1] <= (8 * RScale) \div (10 * (conf.infest_end - conf.infest_start))
        IN  /\ log[j] = <<"three_PG">> <=>
                ~triggered /\ Len(draws) = 2 /\ draws[2] > risk
            /\ Disturbance(log[j]) <=>
                triggered \/ (Len(draws) = 2 /\ draws[2] <= risk)

C4_Witness ==
    /\ pc = "year"
    /\ j >= 2
    /\ log[j - 1] = <<"harvested_infestation">>
    /\ log[j] = <<"three_PG">>
    /\ draws = <<HiDraw, MidDraw>>

\* C5 as claimed: the growth year after a disturbance year appends age 0.
C5_Original ==
    \A k \in 1..(Len(log) - 1) :
        Disturbance(log[k]) /\ log[k + 1] = <<"three_PG">>
            => local_states.age[k + 2] = 0

-----------------------------------------------------------------------------
(* The landscape run with a fixed random sequence (SpecInjected) *)

\* the stand in progress repeats the finished stand s as far as it got
Repeats(s) ==
    /\ local_states = Upto(s.local_states, j + 1)
    /\ log = SubSeq(s.log, 1, j)
    /\ removed = SubSeq(s.removed, 1, j)

\* C11: stands of one scenario that read the same sequence of random draws,
\* with the same parameters and initial state, have identical trajectories
\* (every entry of the nine series) and identical harvested amounts per
\* year: the finished stands are all alike and the stand in progress repeats
\* them year by year.
C11_Determinism ==
    /\ Cardinality(BagToSet(stands)) <= 1
    /\ pc = "year" => \A s \in BagToSet(stands) : Repeats(s)

C11_Witness ==
    /\ pc = "year"
    /\ i = 1
    /\ j = conf.simulation_length
    /\ BagCardinality(stands) >= 1
    /\ \E a, b \in 1..j : removed[a] > 0 /\ log[b] = <<"three_PG">>

-----------------------------------------------------------------------------
(* The series of a stand (Spec) *)

\* C12: while a stand is simulated its nine series have the same length, 1
\* plus the number of years simulated so far; every year step, whatever its
\* kind, appends exactly one entry to each series and changes no existing
\* entry; the stand ends only after the configured number of years, with
\* series of length simulation_length + 1.
C12_SeriesLengths ==
    [][/\ pc' = "year" =>
            /\ j' <= conf.simulation_length
            /\ \A q \in Series : Len(local_states'[q]) = j' + 1
       /\ pc = "year" /\ pc' = "year" =>
            /\ j' = j + 1
            /\ \A q \in Series :
                 /\ Len(local_states'[q]) = Len(local_states[q]) + 1
                 /\ SubSeq(local_states'[q], 1, Len(local_states[q]))
                      = local_states[q]
       /\ pc = "year" /\ pc' = "stand" =>
            /\ j = simulation_length
            /\ local_states' = local_states
            /\ \A q \in Series : Len(local_states[q]) = simulation_length + 1
      ]_vars

C12_Witness ==
    /\ pc = "stand"
    /\ run >= 1
    /\ Len(local_states.interception) = simulation_length + 1
    /\ \E a, b \in 1..Len(log) : Infestation(log[a]) /\ log[b] = <<"fire">>

\* C13: from the non-negative initial pools and the positive parameters,
\* every entry of the six carbon pools of a stand is non-negative, whatever
\* sequence of growth, fire and infestation years led to it.
C13_NonNegativePools ==
    \A q \in Pools :
        \A k \in 1..Len(local_states[q]) : local_states[q][k] >= 0

C13_Witness ==
    /\ pc = "year"
    /\ j = simulation_length
    /\ log[1] = <<"fire">>
    /\ \E a, b \in 2..j : Infestation(log[a]) /\ log[b] = <<"three_PG">>
    /\ \A q \in Pools : local_states[q][j + 1] >= 0

-----------------------------------------------------------------------------
(* The landscape run over no years (SpecShort) *)

\* C14: with simulation_length 0 a stand is its configured initial state:
\* each of the nine series holds only entry 0 of the global initial values,
\* no year is appended, random() is never called, nothing is harvested and
\* no event is counted; the totals of a scenario are runs times the initial
\* pools and land() returns one-entry series of zeros.
C14_ZeroYears ==
    conf.simulation_length = 0 =>
        /\ pc = "year" \/ (pc = "stand" /\ run >= 1) =>
              /\ local_states = new_local_states(states)
              /\ \A q \in Series : local_states[q] = <<DefaultStates[q][1]>>
        /\ \A s \in BagToSet(stands) : s.local_states = new_local_states(states)
        /\ log = <<>> /\ removed = <<>>
        /\ draws = <<>> /\ low_draws = 0
        /\ harvest = 0
        /\ \A k \in 1..Len(harvests) :
              harvests[k] = 0 /\ fires[k] = 0 /\ infestations[k] = 0
        /\ pc = "stand" =>
              \A q \in Pools : totals[q] = <<run * DefaultStates[q][1]>>
        /\ pc = "done" => ret.difference = <<0>> /\ ret.cumsum = <<0>>

C14_Witness ==
    /\ conf.simulation_length = 0
    /\ pc = "done"
    /\ BagCardinality(stands) = runs
    /\ Len(local_states.w_o) = 1

-----------------------------------------------------------------------------
(* The accumulators of a scenario (Spec) *)

\* the sum over the stands in S, each as often as it was simulated, of
\* entry k of series q
RECURSIVE StandsTotal(_, _, _)
StandsTotal(S, q, k) ==
    IF S = {} THEN 0
    ELSE LET s == CHOOSE x \in S : TRUE
         IN  CopiesIn(s, stands) * s.local_states[q][k]
               + StandsTotal(S \ {s}, q, k)

\* every order in which the finished stands can be listed
Orderings ==
    {sq \in [1..BagCardinality(stands) -> BagToSet(stands)] :
        \A s \in BagToSet(stands) :
            Cardinality({n \in DOMAIN sq : sq[n] = s}) = CopiesIn(s, stands)}

\* series q added up stand by stand in the order sq, from a list of zeros
RECURSIVE Accumulated(_, _)
Accumulated(sq, q) ==
    IF Len(sq) = 0 THEN Zeros(simulation_length + 1)
    ELSE VecAdd(Accumulated(SubSeq(sq, 1, Len(sq) - 1), q),
                sq[Len(sq)].local_states[q])

C18_FreshStands ==
    /\ pc = "year" =>
         /\ Entry(local_states, 1) = Entry(states, 1)
         /\ j = 0 =>
              /\ age = 0
              /\ ~infested
              /\ local_states = new_local_states(states)
              /\ log = <<>>
         /\ \A q \in Pools : \A k \in Years :
              totals[q][k] = StandsTotal(BagToSet(stands), q, k)
    /\ \A s \in BagToSet(stands) :
         /\ Entry(s.local_states, 1) = Entry(states, 1)
         /\ s.log[1] = <<"three_PG">> => s.local_states.age[2] = 0

C18_Witness ==
    /\ pc = "year"
    /\ i = 1
    /\ run >= 1
    /\ j = 0
    /\ \E s \in BagToSet(stands) :
         \E a, b \in 1..Len(s.log) :
             s.log[a] = <<"fire">> /\ s.log[b] = <<"harvested_infestation">>

\* C19: an infestation is applied only in a year of the window
\* [infest_start, infest_end], in the stand in progress and in every
\* finished stand; at every index of a year outside the window the
\* infestation count is 0 and no harvested carbon is recorded.
C19_InfestationWindow ==
    /\ \A k \in 1..Len(log) : Infestation(log[k]) => InWindow(k)
    /\ \A s \in BagToSet(stands) :
         \A k \in 1..Len(s.log) :
             Infestation(s.log[k]) \/ s.removed[k] # 0 => InWindow(k)
    /\ \A k \in 1..Len(infestations) :
         ~InWindow(k) => infestations[k] = 0 /\ harvests[k] = 0

C19_Witness ==
    /\ pc = "done"
    /\ conf.infest_start > start_year
    /\ infestations[1] = 0
    /\ \E k \in Years : InWindow(k) /\ infestations[k] >= 1 /\ harvests[k] < 0
    /\ \E k \in Years : ~InWindow(k) /\ fires[k] >= 1

\* the number of stands in S, each as often as it was simulated, whose
\* year k was of one of the kinds
RECURSIVE StandsWith(_, _, _)
StandsWith(S, k, kinds) ==
    IF S = {} THEN 0
    ELSE LET s == CHOOSE x \in S : TRUE
         IN  (IF k <= Len(s.log) /\ s.log[k] \in kinds
                THEN CopiesIn(s, stands) ELSE 0)
               + StandsWith(S \ {s}, k, kinds)

\* 1 if the stand in progress went through year k and it was of one of
\* the kinds
InProgress(k, kinds) ==
    IF pc = "year" /\ k <= Len(log) /\ log[k] \in kinds THEN 1 ELSE 0

\* C20: in each scenario and at every index, the fire count is the number
\* of stands whose year at that index was a fire year and the infestation
\* count is the number of stands whose year at that index was an
\* infestation year; the two together never exceed the number of stands.
C20_EventCounts ==
    \A k \in 1..Len(fires) :
        /\ fires[k] = StandsWith(BagToSet(stands), k, {<<"fire">>})
                        + InProgress(k, {<<"fire">>})
        /\ infestations[k] =
              StandsWith(BagToSet(stands), k,
                         {<<"unharvested_infestation">>,
                          <<"harvested_infestation">>})
                + InProgress(k, {<<"unharvested_infestation">>,
                                 <<"harvested_infestation">>})
        /\ fires[k] + infestations[k] <= runs

C20_Witness ==
    /\ pc = "scenario"
    /\ i = 1
    /\ \E k \in Years : fires[k] = 1 /\ infestations[k] = 1
    /\ fires[simulation_length + 1] = 0

\* C17: no step of land() - beginning a scenario or a stand, a growth, fire
\* or infestation year, adding a stand to the totals, ending a scenario,
\* returning - changes an entry of the parameter set or of the global
\* initial-value series; what changes is the stand's own state and the
\* accumulators of the scenario.
C17_ConfigurationUnchanged ==
    [][params' = params /\ states' = states]_vars

C17_Witness ==
    /\ pc = "done"
    /\ params = DefaultParams
    /\ states = DefaultStates
    /\ SeqSum(fires) >= 1
    /\ SeqSum(infestations) >= 1
    /\ local_states.w_o # states.w_o

-----------------------------------------------------------------------------
(* The main control loop (SpecMain) *)

\* C15 as claimed: with a parameter set that holds a non-positive age_max or
\* specific leaf area no year of a simulation runs and no entry is appended
\* to a series.
C15_Original ==
    (params.age_max <= 0 \/ params.sigma_f <= 0) /\ pc \in {"stand1", "stand2"}
        => log = <<>> /\ \A q \in Series : Len(local_states[q]) = 1

\* C26 as claimed: the command that names an initial state variable
\* completes without an error.
C26_Original == pc # "KeyError"

-----------------------------------------------------------------------------
(* The years of a stand, entry by entry (Spec) *)

\* C21: the LAI and interception entries appended in a fire year or in an
\* infestation year of either kind are 0; an entry of LAI or interception
\* that is not 0 was appended by a growth year.
C21_DisplayReset ==
    \A k \in 1..Len(log) :
        /\ Disturbance(log[k]) =>
              local_states.LAI[k + 1] = 0 /\ local_states.interception[k + 1] = 0
        /\ local_states.LAI[k + 1] # 0 \/ local_states.interception[k + 1] # 0
              => log[k] = <<"three_PG">>

C21_Witness ==
    /\ pc = "year"
    /\ \E k \in 1..(Len(log) - 1) :
         /\ log[k] = <<"three_PG">>
         /\ local_states.LAI[k + 1] > 0
         /\ local_states.interception[k + 1] > 0
         /\ Disturbance(log[k + 1])
         /\ local_states.LAI[k + 2] = 0

\* C23 as claimed: an event whose state after the event is entry k of the
\* stand's series is counted at entry k of the fire counts or of the
\* infestation counts, and what it harvested is taken from entry k of the
\* harvested amounts.  (Year k of the log appends entry k + 1 of the
\* series, the first entry being the initial state.)
C23_Original ==
    \A k \in 1..Len(log) :
        /\ log[k] = <<"fire">> => fires[k + 1] >= 1
        /\ Infestation(log[k]) => infestations[k + 1] >= 1
        /\ log[k] = <<"harvested_infestation">> /\ removed[k] > 0
              => harvests[k + 1] <= -removed[k]

-----------------------------------------------------------------------------
(* The harvested amounts (Spec) *)

\* the stems a stand had before the reset of year k, if that year was a
\* harvested infestation, and 0 if it was any other year or is yet to come
StemsHarvested(lg, sd, k) ==
    IF k <= Len(lg) /\ lg[k] = <<"harvested_infestation">> THEN sd.w_s[k] ELSE 0

\* the same, added up over the stands in S, each as often as it was simulated
RECURSIVE HarvestedIn(_, _)
HarvestedIn(S, k) ==
    IF S = {} THEN 0
    ELSE LET s == CHOOSE x \in S : TRUE
         IN  CopiesIn(s, stands) * StemsHarvested(s.log, s.local_states, k)
               + HarvestedIn(S \ {s}, k)

\* C30: in the unharvested scenario every harvested amount is 0 after any
\* number of years; in the harvest scenario the amount at each index is
\* minus the stems that the stands infested in that year had before the
\* reset, so that fire years, growth years and years yet to come add
\* nothing to it.
C30_HarvestsFrame ==
    \A k \in 1..Len(harvests) :
        /\ i = 0 => harvests[k] = 0
        /\ i >= 1 =>
             harvests[k]
               = 0 - (HarvestedIn(BagToSet(stands), k)
                        + IF pc = "year"
                             THEN StemsHarvested(log, local_states, k)
                             ELSE 0)

C30_Witness ==
    /\ i = 1
    /\ pc = "year"
    /\ BagCardinality(stands) >= 1
    /\ \E k \in 1..(Len(log) - 1) :
         /\ log[k] = <<"harvested_infestation">>
         /\ log[k + 1] \in {<<"fire">>, <<"three_PG">>}
         /\ harvests[k] < 0
         /\ harvests[k + 1] = 0

-----------------------------------------------------------------------------
(* The two scenarios on the same random draws (SpecInjected) *)

\* the index of the first infestation year of a log, or one past its end
FirstInfestation(lg) ==
    IF \E k \in 1..Len(lg) : Infestation(lg[k])
        THEN CHOOSE k \in 1..Len(lg) :
                 /\ Infestation(lg[k])
                 /\ \A m \in 1..(k - 1) : ~Infestation(lg[m])
        ELSE Len(lg) + 1

\* C29: a stand of the harvest scenario that reads the draws a stand of the
\* unharvested scenario read, with the same parameters and initial state,
\* repeats its entries and its kinds of year up to the first infestation
\* and harvests nothing there; both are infested in the same year, and the
\* entry of that year is the same but for the coarse fuel, which is lower
\* in the harvest scenario by the stems before the reset, the amount
\* harvested.
C29_ScenariosAgree ==
    i = 1 /\ pc = "year" =>
        /\ BagCardinality(unharvested) = runs
        /\ \A u \in BagToSet(unharvested) :
             LET f == FirstInfestation(u.log)
             IN  /\ Entry(local_states, 1) = Entry(u.local_states, 1)
                 /\ \A k \in 1..Len(log) :
                      k < f => /\ log[k] = u.log[k]
                               /\ ~Infestation(log[k])
                               /\ removed[k] = 0
                               /\ Entry(local_states, k + 1)
                                    = Entry(u.local_states, k + 1)
                 /\ f <= Len(log) =>
                      /\ u.log[f] = <<"unharvested_infestation">>
                      /\ log[f] = <<"harvested_infestation">>
                      /\ removed[f] = local_states.w_s[f]
                      /\ Entry(local_states, f + 1)
                           = [Entry(u.local_states, f + 1)
                                EXCEPT !.w_c = @ - removed[f]]

C29_Witness ==
    /\ i = 1
    /\ pc = "year"
    /\ \E f \in 2..Len(log) :
         /\ log[f] = <<"harvested_infestation">>
         /\ \A k \in 1..(f - 1) : ~Infestation(log[k])
         /\ \E k \in 1..(f - 1) : log[k] = <<"three_PG">>
         /\ removed[f] > Residual

-----------------------------------------------------------------------------
(* The growth step, term by term (SpecStep) *)

\* what a pool gained in the growth step
Gain(q) == local_states[q][2] - local_states[q][1]

\* C24 as claimed: in a growth step the litter gains the litterfall, the
\* coarse fuel gains the whole branchfall and the soil organic matter gains
\* the root turnover scaled by the microbial efficiency, each less the
\* pool's own turnover (up to rounding).
C24_Original ==
    Stepped("three_PG") =>
        LET t == StepTerms
        IN  /\ Abs(Gain("w_l") - (t.litterfall - t.litter_turnover)) <= 1
            /\ Abs(Gain("w_c") - (t.branchfall - t.coarse_turnover)) <= 1
            /\ Abs(Gain("w_o")
                     - (FMul(t.root_turnover, params.microbial_efficiency)
                          - t.som_turnover)) <= 1

\* C24 as amended: in a growth step the litterfall leaves the foliage, the
\* branchfall the stems and the root turnover the roots; the litter gains
\* the litterfall and 0.9 of the branchfall, the coarse fuel gains 0.1 of
\* the branchfall, and the soil organic matter gains the root turnover, the
\* litter turnover and the coarse fuel turnover together, scaled by the
\* microbial efficiency; each of the three loses its own turnover (up to
\* rounding).
C24_TurnoverTargets ==
    Stepped("three_PG") =>
        LET t == StepTerms
            share == (33 * t.annual_c_increment) \div 100
        IN  /\ Gain("w_f") = share - t.litterfall
            /\ Gain("w_s") = share - t.branchfall
            /\ Gain("w_r") = share - t.root_turnover
            /\ Abs(10 * (Gain("w_l") - t.litterfall + t.litter_turnover)
                     - 9 * t.branchfall) <= 10
            /\ Abs(10 * (Gain("w_c") + t.coarse_turnover) - t.branchfall) <= 10
            /\ Abs((Gain("w_l") - t.litterfall + t.litter_turnover)
                     + (Gain("w_c") + t.coarse_turnover) - t.branchfall) <= 1
            /\ Abs(Scale * (Gain("w_o") + t.som_turnover)
                     - (t.root_turnover + t.litter_turnover + t.coarse_turnover)
                         * params.microbial_efficiency) <= Scale

C24_Witness ==
    /\ Stepped("three_PG")
    /\ StepTerms.branchfall >= 10
    /\ StepTerms.litter_turnover > 0
    /\ StepTerms.coarse_turnover > 0
    /\ StepTerms.root_turnover > 0
    /\ StepTerms.litterfall > 0

\* C25 as claimed: the absorbed photosynthetically active radiation of a
\* growth step is the short-wave radiation times 3.6, times 0.45, times the
\* interception fraction the step appends (up to rounding).
C25_Original ==
    Stepped("three_PG") =>
        Abs(StepTerms.phi_pa
              - FMul((((params.phi_s * 36) \div 10) * 45) \div 100,
                     local_states.interception[2])) <= 1

-----------------------------------------------------------------------------
(* The length of a flux time series in LCA (SpecLCA) *)

\* C27 as claimed: the series that is iterated has TWP_length entries
\* whatever was supplied: the first TWP_length entries of a longer series,
\* and a shorter series followed by zeros.
C27_Original ==
    pc = "adjusted" =>
        LET supplied == conf.flux_timeseries
            iterated == ret.flux_timeseries
        IN  /\ Len(iterated) = TWP_length
            /\ \A k \in 1..TWP_length :
                 iterated[k] = IF k <= Len(supplied) THEN supplied[k] ELSE 0

-----------------------------------------------------------------------------
(* The deficits of FVS.deficit (SpecFVS) *)

\* C28 as claimed: the list of deficits returned has one entry per year,
\* and entry i is control[i] - RX[i].
C28_Original ==
    pc = "returned" =>
        /\ Len(ret.running_deficit) = Len(conf.years)
        /\ \A k \in 1..Len(conf.years) :
             ret.running_deficit[k]
               = conf.systemC_control_list[k] - conf.systemC_RX_list[k]

-----------------------------------------------------------------------------
(* The age modifier (SpecAge) *)

\* the ages the model calls age_modifier with, for the parameters in use
AgesInUse ==
    UNION {c.ages : c \in {d \in AgeCases : /\ d.age_max = params.age_max
                                             /\ d.n_age = params.n_age}}

\* p > q for two quotients
Greater(p, q) == p.num * q.den > q.num * p.den

\* what age_modifier returns for age b with the parameters in use
ModifierAt(b) == age_modifier_float(b, params.age_max, params.n_age)

=============================================================================
